---- MODULE Spec2Model ----
(***************************************************************************)
(* Model of the query pipeline of the In-Surely notebook:                  *)
(*   collection.add            (VectorStore.add)                           *)
(*   retrieve_documents        (Retriever.resolve, with the semantic cache)*)
(*   rerank_results            (Reranker.rerank)                           *)
(*   integrated_workflow       (Pipeline.answer)                           *)
(* Distances are squared L2 distances of one-dimensional embeddings, in    *)
(* hundredths: the notebook's cache_threshold of 0.2 is 20 here.           *)
(***************************************************************************)
EXTENDS Integers, Sequences, FiniteSets, TLC

VARIABLES collection, cache_collection, call, threads

vars == <<collection, cache_collection, call, threads>>

(***************************************************************************)
(* Bounds and program constants                                            *)
(***************************************************************************)
\* number of chunks the ingestion can add to the VectorStore
MaxChunks == 4

\* retrieve_documents(query, n_results=5, cache_threshold=0.2)
DefaultNResults == 5
DefaultCacheThreshold == 20
\* reranked_df.head(3)
TopK == 3

\* the query strings of the model and their embeddings
Queries == {"qa", "qb", "qc"}
QueryEmb(q) == IF q = "qa" THEN 0 ELSE IF q = "qb" THEN 3 ELSE 7
\* the queries submitted through the workflow: two phrasings close enough to
\* share a cache entry
WorkflowQueries == {"qa", "qb"}

NResultsValues == {1, DefaultNResults}
ThresholdValues == {-1, 0, DefaultCacheThreshold}

\* the chunks: ids 0, 1, 2, ... (str(i) in the notebook), page text, metadata
ChunkIds == 0 .. (MaxChunks - 1)
\* the corpus has two pages at first and MaxChunks pages once it has grown
CorpusSizes == {2, MaxChunks}
PageText(i) == IF i % 2 = 0 THEN "page text A" ELSE "page text B"
Texts == {"page text A", "page text B"}
ChunkMetadata(i) == [Policy_Name |-> "policy.pdf", Page_No |-> i + 1]
ChunkEmb(i) == 20 - 6 * i

\* squared L2 distance, the default space of a Chroma collection
Dist(x, y) == (x - y) * (x - y)

\* scores the cross-encoder can give
ScoreValues == {1, 2}

(***************************************************************************)
(* str(list) and ast.literal_eval: a list is written as the token sequence *)
(* [ x1 , x2 , ... ] and read back from it.                                *)
(***************************************************************************)
Tok(t, v) == [t |-> t, v |-> v]

Str(xs) ==
    LET n == Len(xs)
        last == IF n = 0 THEN 2 ELSE 2 * n + 1
    IN  [k \in 1 .. last |->
            IF k = 1 THEN Tok("[", 0)
            ELSE IF k = last THEN Tok("]", 0)
            ELSE IF k % 2 = 0 THEN Tok("lit", xs[k \div 2])
            ELSE Tok(",", 0)]

\* a variant of the reader that loses the last element of the list
literal_eval_DropLast(s) ==
    LET inner == SubSeq(s, 2, Len(s) - 1)
    IN  [i \in 1 .. ((Len(inner) - 1) \div 2) |-> inner[2 * i - 1].v]

literal_eval(s) ==
    LET inner == SubSeq(s, 2, Len(s) - 1)
    IN  [i \in 1 .. ((Len(inner) + 1) \div 2) |-> inner[2 * i - 1].v]

(***************************************************************************)
(* The two Chroma collections                                              *)
(***************************************************************************)
RECURSIVE NearestIds(_, _, _)
\* the k ids of S with the least distance d[id], nearest first
NearestIds(S, k, d) ==
    IF k = 0 \/ S = {} THEN <<>>
    ELSE LET m == CHOOSE c \in S : \A x \in S : d[c] <= d[x]
         IN  <<m>> \o NearestIds(S \ {m}, k - 1, d)

\* collection.query(query_texts=[query], n_results=n_results): entry [0] of
\* each of the three result lists
CollectionQuery(coll, query, n_results) ==
    LET d == [c \in coll |-> Dist(QueryEmb(query), ChunkEmb(c))]
        ids == NearestIds(coll, n_results, d)
    IN  [documents |-> [i \in 1 .. Len(ids) |-> PageText(ids[i])],
         metadatas |-> [i \in 1 .. Len(ids) |-> ChunkMetadata(ids[i])],
         distances |-> [i \in 1 .. Len(ids) |-> d[ids[i]]]]

\* a variant of the cache query that answers with the farthest stored query
CacheQuery_Farthest(cache, query) ==
    LET d == [q \in DOMAIN cache |-> Dist(QueryEmb(query), QueryEmb(q))]
        ids == NearestIds(DOMAIN cache, 1, [q \in DOMAIN cache |-> 0 - d[q]])
    IN  [ids |-> ids,
         metadatas |-> [i \in 1 .. Len(ids) |-> cache[ids[i]]],
         distances |-> [i \in 1 .. Len(ids) |-> d[ids[i]]]]

\* cache_collection.query(query_texts=[query], n_results=1)
CacheQuery(cache, query) ==
    LET d == [q \in DOMAIN cache |-> Dist(QueryEmb(query), QueryEmb(q))]
        ids == NearestIds(DOMAIN cache, 1, d)
    IN  [ids |-> ids,
         metadatas |-> [i \in 1 .. Len(ids) |-> cache[ids[i]]],
         distances |-> [i \in 1 .. Len(ids) |-> d[ids[i]]]]

\* a variant of the cache write that stores the documents only and leaves the
\* two other lists empty
CacheAdd_DocumentsOnly(cache, query, md) ==
    IF query \in DOMAIN cache THEN cache
    ELSE [q \in (DOMAIN cache) \cup {query} |->
            IF q = query
            THEN [documents |-> md.documents, distances |-> Str(<<>>),
                  metadatas |-> Str(<<>>)]
            ELSE cache[q]]

\* a variant of the cache write that replaces the record of an id that
\* already exists (an upsert)
CacheAdd_Upsert(cache, query, md) ==
    [q \in (DOMAIN cache) \cup {query} |-> IF q = query THEN md ELSE cache[q]]

\* cache_collection.add(documents=[query], ids=[query], metadatas=[md]):
\* Chroma's add leaves a record whose id already exists as it is
CacheAdd(cache, query, md) ==
    IF query \in DOMAIN cache THEN cache
    ELSE [q \in (DOMAIN cache) \cup {query} |-> IF q = query THEN md ELSE cache[q]]

\* pd.DataFrame({"Documents": ..., "Metadata": ..., "Distances": ...})
DataFrame(documents, metadatas, distances) ==
    [i \in 1 .. Len(documents) |->
        [Documents |-> documents[i], Metadata |-> metadatas[i], Distances |-> distances[i]]]

(***************************************************************************)
(* External calls can raise: the fault names the one call of an invocation *)
(* that does (an embedding, index, scoring or generation failure).  A      *)
(* fault at a call the invocation never reaches does not happen.           *)
(***************************************************************************)
RetrievalFaults == {"none", "cache_query", "collection_query", "cache_add"}
RerankFaults == {"none", "predict"}
GenerateFaults == {"none", "generate"}

NoFrame == <<>>

\* an exception leaves retrieve_documents: nothing is returned
Raised(cache, trace) ==
    [raised |-> TRUE, cache_hit |-> FALSE, df |-> NoFrame, cache |-> cache,
     trace |-> trace]

\* the cache-hit branch of retrieve_documents: the three lists are read back
\* from the strings of the nearest entry
HitPath(cache, cache_data) ==
    LET documents == literal_eval(cache_data.documents)
        distances == literal_eval(cache_data.distances)
        metadatas == literal_eval(cache_data.metadatas)
    IN  [raised |-> FALSE, cache_hit |-> TRUE,
         df |-> DataFrame(documents, metadatas, distances),
         cache |-> cache, trace |-> <<"cache_collection.query">>]

\* a variant of the miss branch that writes the cache entry before the
\* VectorStore has answered
MissPath_StoreBeforeQuery(cache, coll, query, n_results, fault) ==
    LET results == CollectionQuery(coll, query, n_results)
        md == [documents |-> Str(results.documents),
               distances |-> Str(results.distances),
               metadatas |-> Str(results.metadatas)]
        tr == <<"cache_collection.query", "collection.query", "cache_collection.add">>
    IN  IF fault = "collection_query"
        THEN Raised(CacheAdd(cache, query, md),
                    <<"cache_collection.query", "collection.query">>)
        ELSE IF fault = "cache_add" THEN Raised(cache, tr)
        ELSE [raised |-> FALSE, cache_hit |-> FALSE,
              df |-> DataFrame(results.documents, results.metadatas, results.distances),
              cache |-> CacheAdd(cache, query, md), trace |-> tr]

\* the cache-miss branch of retrieve_documents: query the VectorStore, then
\* add the result to the cache under the query string, then return it
MissPath(cache, coll, query, n_results, fault) ==
    IF fault = "collection_query"
    THEN Raised(cache, <<"cache_collection.query", "collection.query">>)
    ELSE LET results == CollectionQuery(coll, query, n_results)
             md == [documents |-> Str(results.documents),
                    distances |-> Str(results.distances),
                    metadatas |-> Str(results.metadatas)]
             tr == <<"cache_collection.query", "collection.query",
                     "cache_collection.add">>
         IN  IF fault = "cache_add" THEN Raised(cache, tr)
             ELSE [raised |-> FALSE, cache_hit |-> FALSE,
                   df |-> DataFrame(results.documents, results.metadatas,
                                    results.distances),
                   cache |-> CacheAdd(cache, query, md), trace |-> tr]

\* a variant of retrieve_documents whose threshold test is strict: a distance
\* equal to the threshold is a miss
retrieve_documents_StrictThreshold(cache, coll, query, n_results, cache_threshold, fault) ==
    IF fault = "cache_query" THEN Raised(cache, <<"cache_collection.query">>)
    ELSE LET cache_results == CacheQuery(cache, query)
         IN  IF cache_results.distances # <<>>
                /\ cache_results.distances[1] < cache_threshold
             THEN HitPath(cache, cache_results.metadatas[1])
             ELSE MissPath(cache, coll, query, n_results, fault)

\* retrieve_documents(query, n_results, cache_threshold) on the stores
\* (cache, coll): what it returns or that it raised, the calls it made and
\* the cache it leaves
retrieve_documents(cache, coll, query, n_results, cache_threshold, fault) ==
    IF fault = "cache_query" THEN Raised(cache, <<"cache_collection.query">>)
    ELSE LET cache_results == CacheQuery(cache, query)
         IN  IF cache_results.distances # <<>>
                /\ cache_results.distances[1] <= cache_threshold
             THEN HitPath(cache, cache_results.metadatas[1])
             ELSE MissPath(cache, coll, query, n_results, fault)

(***************************************************************************)
(* Reranking                                                               *)
(***************************************************************************)
\* cross_encoder.predict(inputs): one score per [query, doc] pair; score is
\* the model's scoring of each text against the query of the call
predict(score, inputs) == [i \in 1 .. Len(inputs) |-> score[inputs[i][2]]]

\* a variant of the column assignment that lines the scores up in reverse
WithScores_Misaligned(results_df, scores) ==
    [i \in 1 .. Len(results_df) |->
        [Documents |-> results_df[i].Documents, Metadata |-> results_df[i].Metadata,
         Distances |-> results_df[i].Distances,
         Reranked_Scores |-> scores[Len(results_df) + 1 - i]]]

\* results_df['Reranked_Scores'] = scores
WithScores(results_df, scores) ==
    [i \in 1 .. Len(results_df) |->
        [Documents |-> results_df[i].Documents, Metadata |-> results_df[i].Metadata,
         Distances |-> results_df[i].Distances, Reranked_Scores |-> scores[i]]]

\* a variant of the sort with ascending=True
sort_values_Ascending(df) ==
    {[i \in 1 .. Len(df) |-> df[p[i]]] : p \in
        {p \in Permutations(1 .. Len(df)) :
            \A i \in 1 .. (Len(df) - 1) :
                df[p[i]].Reranked_Scores <= df[p[i + 1]].Reranked_Scores}}

\* df.sort_values(by='Reranked_Scores', ascending=False): pandas sorts with
\* kind='quicksort', which promises no order among equal keys, so every
\* descending arrangement of the rows is a possible outcome
sort_values(df) ==
    {[i \in 1 .. Len(df) |-> df[p[i]]] : p \in
        {p \in Permutations(1 .. Len(df)) :
            \A i \in 1 .. (Len(df) - 1) :
                df[p[i]].Reranked_Scores >= df[p[i + 1]].Reranked_Scores}}

\* a variant of rerank_results that answers a scorer failure with the frame
\* in its retrieval order, every score 0
rerank_results_BestEffort(query, results_df, score, fault) ==
    LET inputs == [i \in 1 .. Len(results_df) |-> <<query, results_df[i].Documents>>]
    IN  IF fault = "predict"
        THEN [raised |-> FALSE,
              frames |-> {WithScores(results_df, [i \in 1 .. Len(results_df) |-> 0])}]
        ELSE [raised |-> FALSE,
              frames |-> sort_values(WithScores(results_df, predict(score, inputs)))]

\* rerank_results(query, results_df): the frames it can return, or that it raised
rerank_results(query, results_df, score, fault) ==
    LET inputs == [i \in 1 .. Len(results_df) |-> <<query, results_df[i].Documents>>]
    IN  IF fault = "predict" THEN [raised |-> TRUE, frames |-> {NoFrame}]
        ELSE [raised |-> FALSE,
              frames |-> sort_values(WithScores(results_df, predict(score, inputs)))]

\* a variant of head that takes the last k rows
head_Tail(df, k) == SubSeq(df, IF Len(df) < k THEN 1 ELSE Len(df) - k + 1, Len(df))

\* reranked_df.head(k)
head(df, k) == SubSeq(df, 1, IF Len(df) < k THEN Len(df) ELSE k)

(***************************************************************************)
(* The state: the two collections, and a record of the last invocation     *)
(* (what was asked, which calls it made, what came back).                  *)
(***************************************************************************)
NoResponse == "no response"
Response == "generated text"
NoScore == <<>>

\* the part of the record that integrated_workflow fills in after retrieval
Workflow(steps, score, scorer_raised, reranked_df, top_docs, response, raised) ==
    [steps |-> steps, score |-> score, scorer_raised |-> scorer_raised,
     reranked_df |-> reranked_df, top_docs |-> top_docs, response |-> response,
     raised |-> raised]

NoWorkflow(raised) == Workflow(<<>>, NoScore, FALSE, NoFrame, NoFrame, NoResponse, raised)

\* op(query, n_results, cache_threshold): r is what retrieve_documents did
\* (stored: it created a cache entry), w what the workflow did after it;
\* raised: the invocation ended in an exception
Record(op, query, n_results, cache_threshold, r, stored, w) ==
    [op |-> op, query |-> query, n_results |-> n_results,
     cache_threshold |-> cache_threshold,
     retrieval_raised |-> r.raised, cache_hit |-> r.cache_hit, df |-> r.df,
     trace |-> r.trace, stored |-> stored,
     steps |-> w.steps, score |-> w.score, scorer_raised |-> w.scorer_raised,
     reranked_df |-> w.reranked_df, top_docs |-> w.top_docs,
     response |-> w.response, raised |-> w.raised]

NoRetrieval == [raised |-> FALSE, cache_hit |-> FALSE, df |-> NoFrame, trace |-> <<>>]

NoCall(op) == Record(op, "", 0, 0, NoRetrieval, FALSE, NoWorkflow(FALSE))

\* the callers that can be inside retrieve_documents at the same time
Procs == {1, 2}

\* a caller's place in retrieve_documents (pc: the call it makes next) and its
\* locals; corpus is the number of chunks the VectorStore held when it
\* answered this call, overlap whether the other caller's call was under way
\* and had not yet stored when this call looked the cache up
Thread(pc, query, n_results, cache_threshold, cache_hit, df, corpus, overlap) ==
    [pc |-> pc, query |-> query, n_results |-> n_results,
     cache_threshold |-> cache_threshold, cache_hit |-> cache_hit, df |-> df,
     corpus |-> corpus, overlap |-> overlap]

IdleThread == Thread("idle", "", 0, 0, FALSE, NoFrame, 0, FALSE)

Init ==
    /\ collection = {}
    /\ cache_collection = <<>>
    /\ call = NoCall("start")
    /\ threads = [p \in Procs |-> IdleThread]

\* collection.add(documents=..., ids=[str(i) for i in range(len(data))],
\* metadatas=...): the pages of the corpus as it is now, ids 0 .. len-1, enter
\* the VectorStore; an id that is already there stays as it is
AddDocuments ==
    \E len \in CorpusSizes :
        /\ len > Cardinality(collection)
        /\ collection' = collection \cup (0 .. (len - 1))
        /\ call' = NoCall("collection.add")
        /\ UNCHANGED <<cache_collection, threads>>

\* a call of retrieve_documents(query, n_results, cache_threshold)
RetrieveDocuments ==
    \E query \in Queries, n_results \in NResultsValues,
       cache_threshold \in ThresholdValues :
    \E r \in {retrieve_documents(cache_collection, collection, query, n_results,
                                 cache_threshold, fault) : fault \in RetrievalFaults} :
        /\ cache_collection' = r.cache
        /\ call' = Record("retrieve_documents", query, n_results, cache_threshold,
                          r, r.cache # cache_collection, NoWorkflow(r.raised))
        /\ UNCHANGED <<collection, threads>>

\* generate_response(query, top_docs): the text of the completion, or it raised
generate_response(query, top_docs, fault) ==
    IF fault = "generate" THEN [raised |-> TRUE, response |-> NoResponse]
    ELSE [raised |-> FALSE, response |-> Response]

\* a variant of integrated_workflow that takes its cache write back when
\* reranking or generation raises
IntegratedWorkflow_RollBack ==
    \E query \in WorkflowQueries :
    \E r \in {retrieve_documents(cache_collection, collection, query, DefaultNResults,
                                 DefaultCacheThreshold, fault) : fault \in RetrievalFaults} :
    \E w \in
        IF r.raised
        THEN {Workflow(<<"retrieve_documents">>, NoScore, FALSE, NoFrame, NoFrame,
                       NoResponse, TRUE)}
        ELSE UNION {
            LET rr == rerank_results(query, r.df, score, rfault)
            IN  IF rr.raised
                THEN {Workflow(<<"retrieve_documents", "rerank_results">>, score,
                               rfault = "predict",
                               NoFrame, NoFrame, NoResponse, TRUE)}
                ELSE {LET top_docs == head(reranked_df, TopK)
                          g == generate_response(query, top_docs, gfault)
                      IN  Workflow(<<"retrieve_documents", "rerank_results",
                                     "generate_response">>, score,
                                   rfault = "predict",
                                   IF g.raised THEN NoFrame ELSE reranked_df,
                                   top_docs, g.response, g.raised) :
                      reranked_df \in rr.frames, gfault \in GenerateFaults}
            : score \in [Texts -> ScoreValues], rfault \in RerankFaults} :
        /\ cache_collection' = IF w.raised THEN cache_collection ELSE r.cache
        /\ call' = Record("integrated_workflow", query, DefaultNResults,
                          DefaultCacheThreshold, r, r.cache # cache_collection, w)
        /\ UNCHANGED <<collection, threads>>

\* integrated_workflow(query): retrieve with the defaults, rerank, take the
\* top 3, generate; returns (reranked_df, response)
IntegratedWorkflow ==
    \E query \in WorkflowQueries :
    \E r \in {retrieve_documents(cache_collection, collection, query, DefaultNResults,
                                 DefaultCacheThreshold, fault) : fault \in RetrievalFaults} :
    \E w \in
        IF r.raised
        THEN {Workflow(<<"retrieve_documents">>, NoScore, FALSE, NoFrame, NoFrame,
                       NoResponse, TRUE)}
        ELSE UNION {
            LET rr == rerank_results(query, r.df, score, rfault)
            IN  IF rr.raised
                THEN {Workflow(<<"retrieve_documents", "rerank_results">>, score,
                               rfault = "predict",
                               NoFrame, NoFrame, NoResponse, TRUE)}
                ELSE {LET top_docs == head(reranked_df, TopK)
                          g == generate_response(query, top_docs, gfault)
                      IN  Workflow(<<"retrieve_documents", "rerank_results",
                                     "generate_response">>, score,
                                   rfault = "predict",
                                   IF g.raised THEN NoFrame ELSE reranked_df,
                                   top_docs, g.response, g.raised) :
                      reranked_df \in rr.frames, gfault \in GenerateFaults}
            : score \in [Texts -> ScoreValues], rfault \in RerankFaults} :
        /\ cache_collection' = r.cache
        /\ call' = Record("integrated_workflow", query, DefaultNResults,
                          DefaultCacheThreshold, r, r.cache # cache_collection, w)
        /\ UNCHANGED <<collection, threads>>

\* direct calls of the retriever
Next == AddDocuments \/ RetrieveDocuments

Spec == Init /\ [][Next]_vars

\* the notebook's workflow: every query goes through integrated_workflow
NextPipeline == AddDocuments \/ IntegratedWorkflow

SpecPipeline == Init /\ [][NextPipeline]_vars

(***************************************************************************)
(* retrieve_documents step by step, for callers that run it at the same    *)
(* time on the same two collections.  Each Chroma call is one step; the    *)
(* collaborators answer (their failures are in retrieve_documents above).  *)
(***************************************************************************)
InFlightBeforeStore(t) ==
    t.pc \in {"cache_collection.query", "collection.query", "cache_collection.add"}

\* a caller enters retrieve_documents(query, n_results, cache_threshold); the
\* result of its previous call, if any, is dropped
Enter(p) ==
    /\ threads[p].pc \in {"idle", "done"}
    /\ \E query \in WorkflowQueries, n_results \in NResultsValues,
          cache_threshold \in ThresholdValues :
        threads' = [o \in Procs |->
            IF o = p
            THEN Thread("cache_collection.query", query, n_results, cache_threshold,
                        FALSE, NoFrame, 0, FALSE)
            ELSE [threads[o] EXCEPT !.overlap = FALSE]]
    /\ UNCHANGED <<collection, cache_collection, call>>

\* cache_results = cache_collection.query(query_texts=[query], n_results=1) and
\* the threshold test: on a hit the stored frame is returned at once
Lookup(p) ==
    /\ threads[p].pc = "cache_collection.query"
    /\ LET t == threads[p]
           cache_results == CacheQuery(cache_collection, t.query)
           overlap == \E o \in Procs \ {p} : InFlightBeforeStore(threads[o])
       IN  threads' = [threads EXCEPT ![p] =
               IF cache_results.distances # <<>>
                  /\ cache_results.distances[1] <= t.cache_threshold
               THEN Thread("done", t.query, t.n_results, t.cache_threshold, TRUE,
                           HitPath(cache_collection, cache_results.metadatas[1]).df,
                           0, overlap)
               ELSE Thread("collection.query", t.query, t.n_results,
                           t.cache_threshold, FALSE, NoFrame, 0, overlap)]
    /\ UNCHANGED <<collection, cache_collection, call>>

\* results = collection.query(query_texts=[query], n_results=n_results)
QueryCollection(p) ==
    /\ threads[p].pc = "collection.query"
    /\ LET t == threads[p]
           results == CollectionQuery(collection, t.query, t.n_results)
       IN  threads' = [threads EXCEPT ![p] =
               Thread("cache_collection.add", t.query, t.n_results, t.cache_threshold,
                      FALSE,
                      DataFrame(results.documents, results.metadatas, results.distances),
                      Cardinality(collection), t.overlap)]
    /\ UNCHANGED <<collection, cache_collection, call>>

\* cache_collection.add(documents=[query], ids=[query], metadatas=[...]) with
\* the three lists of results as strings, then return the frame
Store(p) ==
    /\ threads[p].pc = "cache_collection.add"
    /\ LET t == threads[p]
           md == [documents |-> Str([i \in 1 .. Len(t.df) |-> t.df[i].Documents]),
                  distances |-> Str([i \in 1 .. Len(t.df) |-> t.df[i].Distances]),
                  metadatas |-> Str([i \in 1 .. Len(t.df) |-> t.df[i].Metadata])]
       IN  cache_collection' = CacheAdd(cache_collection, t.query, md)
    /\ threads' = [threads EXCEPT ![p].pc = "done"]
    /\ UNCHANGED <<collection, call>>

NextConcurrent ==
    \/ AddDocuments
    \/ \E p \in Procs : Enter(p) \/ Lookup(p) \/ QueryCollection(p) \/ Store(p)

SpecConcurrent == Init /\ [][NextConcurrent]_vars

(***************************************************************************)
(* Properties of the retriever                                             *)
(***************************************************************************)
\* the record is of a retrieve_documents run that returned a frame
Retrieved(c) ==
    c.op \in {"retrieve_documents", "integrated_workflow"} /\ ~c.retrieval_raised

QDist(p, q) == Dist(QueryEmb(p), QueryEmb(q))

\* the stored queries nearest to q
NearestStored(cache, q) ==
    {k \in DOMAIN cache : \A j \in DOMAIN cache : QDist(q, k) <= QDist(q, j)}

\* the frame a cache entry stands for
Payload(md) ==
    DataFrame(literal_eval(md.documents), literal_eval(md.metadatas),
              literal_eval(md.distances))

Column(df, name) == [i \in 1 .. Len(df) |-> df[i][name]]

\* C1 as stated: whenever retrieve_documents(Q2) follows retrieve_documents(Q1)
\* and the distance between the two queries is within the threshold of the
\* second call, the second call is a cache hit that returns the frame the
\* first call returned; when the distance is above the threshold it is a miss.
C1_AsStated ==
    [][(Retrieved(call) /\ Retrieved(call'))
        => IF QDist(call.query, call'.query) <= call'.cache_threshold
           THEN call'.cache_hit /\ call'.df = call.df
           ELSE ~call'.cache_hit]_vars

\* C1 amended: a call hits exactly when some stored query lies within its
\* threshold, and then it returns the frame stored for a nearest stored query.
\* So after a call for Q1 that created Q1's entry, a call for Q2 within the
\* threshold of Q1 hits, and it returns Q1's frame when Q1 is the stored query
\* nearest to Q2.
C1_NearestEntryDecides ==
    [][Retrieved(call')
        => LET q == call'.query
               thr == call'.cache_threshold
               near == NearestStored(cache_collection, q)
           IN  /\ call'.cache_hit
                    <=> (\E k \in DOMAIN cache_collection : QDist(q, k) <= thr)
               /\ call'.cache_hit
                    => \E k \in near : call'.df = Payload(cache_collection[k])
               /\ (Retrieved(call) /\ call.stored /\ QDist(call.query, q) <= thr)
                    => /\ call'.cache_hit
                       /\ call.query \in near => call'.df = call.df]_vars

\* a call was answered from the entry of another, nearby query
C1_Witness ==
    /\ call.op = "retrieve_documents"
    /\ call.cache_hit
    /\ call.query \notin DOMAIN cache_collection
    /\ Len(call.df) > 0

\* C2 as stated: two calls in a row with the same query string, whatever their
\* n_results and their thresholds >= 0, return the same frame, and the second
\* is a cache hit.
C2_AsStated ==
    [][(/\ Retrieved(call) /\ Retrieved(call')
        /\ call'.query = call.query
        /\ call.cache_threshold >= 0 /\ call'.cache_threshold >= 0)
        => (call'.cache_hit /\ call'.df = call.df)]_vars

\* C2 amended: the same, when the threshold of the second call is not below
\* the threshold of the first.
C2_SameQueryTwice ==
    [][(/\ Retrieved(call) /\ Retrieved(call')
        /\ call'.query = call.query
        /\ call.cache_threshold >= 0
        /\ call'.cache_threshold >= call.cache_threshold)
        => (call'.cache_hit /\ call'.df = call.df)]_vars

\* a call hit the entry stored under its own query string
C2_Witness ==
    /\ call.op = "retrieve_documents"
    /\ call.cache_hit
    /\ call.query \in DOMAIN cache_collection
    /\ call.cache_threshold = 0
    /\ Len(call.df) > 1

\* C3: a call that hits leaves both collections as they were, makes no
\* VectorStore query and returns a stored frame; a cache entry appears only in
\* a call that missed, under that call's query string, and its three strings
\* are the three columns of the frame that call got from the VectorStore.
C3_WrittenOnlyOnMiss ==
    [][/\ (Retrieved(call') /\ call'.cache_hit)
            => /\ cache_collection' = cache_collection
               /\ collection' = collection
               /\ call'.trace = <<"cache_collection.query">>
               /\ \E k \in DOMAIN cache_collection :
                    call'.df = Payload(cache_collection[k])
       /\ \A q \in (DOMAIN cache_collection') \ (DOMAIN cache_collection) :
            /\ Retrieved(call') /\ ~call'.cache_hit /\ call'.query = q
            /\ call'.df = DataFrame(CollectionQuery(collection, q, call'.n_results).documents,
                                    CollectionQuery(collection, q, call'.n_results).metadatas,
                                    CollectionQuery(collection, q, call'.n_results).distances)
            /\ cache_collection'[q].documents = Str(Column(call'.df, "Documents"))
            /\ cache_collection'[q].metadatas = Str(Column(call'.df, "Metadata"))
            /\ cache_collection'[q].distances = Str(Column(call'.df, "Distances"))]_vars

\* a miss created an entry with a non-empty frame
C3_Witness ==
    /\ call.op = "retrieve_documents"
    /\ ~call.cache_hit /\ call.stored
    /\ Len(call.df) > 1
    /\ Payload(cache_collection[call.query]) = call.df

\* C4: a call whose cache lookup or VectorStore query raised returns nothing,
\* ends in the exception, never reached the cache write and leaves both
\* collections exactly as they were.
C4_FailureLeavesCache ==
    [][(/\ call'.op \in {"retrieve_documents", "integrated_workflow"}
        /\ call'.retrieval_raised
        /\ call'.trace[Len(call'.trace)] \in {"cache_collection.query", "collection.query"})
        => /\ cache_collection' = cache_collection
           /\ collection' = collection
           /\ call'.raised
           /\ call'.df = NoFrame
           /\ \A i \in 1 .. Len(call'.trace) : call'.trace[i] # "cache_collection.add"]_vars

\* the VectorStore query of a miss raised while the cache held entries
C4_Witness ==
    /\ call.op = "retrieve_documents"
    /\ call.retrieval_raised
    /\ call.trace = <<"cache_collection.query", "collection.query">>
    /\ cache_collection # <<>>
    /\ call.query \notin DOMAIN cache_collection

\* C5 as stated: after a call that missed although its query string already
\* had an entry, the entry of that query string holds the frame this call got
\* from the VectorStore.
C5_AsStated ==
    (Retrieved(call) /\ ~call.cache_hit /\ ~call.stored)
        => /\ call.query \in DOMAIN cache_collection
           /\ Payload(cache_collection[call.query]) = call.df

\* C6 as stated: a returned frame has at most n_results rows.
C6_AsStated ==
    Retrieved(call) => Len(call.df) <= call.n_results

\* the distance from q to the stored query nearest to it (the cache holds one)
NearestDistance(cache, q) ==
    CHOOSE d \in {QDist(q, k) : k \in DOMAIN cache} :
        \A k \in DOMAIN cache : d <= QDist(q, k)

\* C11: a call takes the hit path exactly when the cache holds an entry and
\* the distance from its query to the single nearest stored query is at most
\* its threshold, a distance equal to the threshold included; on an empty
\* cache every call, whatever its query, n_results and threshold, is a miss,
\* and the lookup in the empty cache raises nothing: a call whose collaborators
\* do not fail returns a frame.
C11_ThresholdRule ==
    [][/\ Retrieved(call')
            => (call'.cache_hit
                  <=> /\ cache_collection # <<>>
                      /\ NearestDistance(cache_collection, call'.query)
                            <= call'.cache_threshold)
       /\ cache_collection = <<>>
            => /\ call'.op \in {"retrieve_documents", "integrated_workflow"}
                    => ~call'.cache_hit
               /\ \A q \in Queries, n \in NResultsValues, thr \in ThresholdValues :
                    LET r == retrieve_documents(<<>>, collection, q, n, thr, "none")
                    IN  /\ ~r.raised /\ ~r.cache_hit
                        /\ r.trace = <<"cache_collection.query", "collection.query",
                                       "cache_collection.add">>]_vars

\* a hit on the boundary: the nearest of several stored queries is at a
\* distance equal to the threshold of the call
C11_Witness ==
    /\ call.op = "retrieve_documents"
    /\ call.cache_hit
    /\ Cardinality(DOMAIN cache_collection) >= 2
    /\ NearestDistance(cache_collection, call.query) = call.cache_threshold
    /\ Len(call.df) > 0

\* what the VectorStore answers now to the query of call c
AnswerNow(c) ==
    LET results == CollectionQuery(collection, c.query, c.n_results)
    IN  DataFrame(results.documents, results.metadatas, results.distances)

\* C13: no call of retrieve_documents and no collection.add removes a cache
\* entry or changes its three strings, so the set of entries only grows; and a
\* call that hits returns the frame of an entry that was there before the
\* call, as it was stored, whatever the VectorStore would answer now.
C13_EntriesFrozen ==
    [][/\ \A q \in DOMAIN cache_collection :
            /\ q \in DOMAIN cache_collection'
            /\ cache_collection'[q] = cache_collection[q]
       /\ (Retrieved(call') /\ call'.cache_hit)
            => \E k \in NearestStored(cache_collection, call'.query) :
                /\ call'.df = Payload(cache_collection[k])
                /\ call'.df = Payload(cache_collection'[k])]_vars

\* a stale hit: the call was answered from its own query's entry although a
\* chunk added since then is nearer to the query than every stored row
C13_Witness ==
    /\ call.op = "retrieve_documents"
    /\ call.cache_hit
    /\ call.query \in DOMAIN cache_collection
    /\ Len(call.df) > 0
    /\ AnswerNow(call) # call.df
    /\ \A i \in 1 .. Len(call.df) : AnswerNow(call)[1].Distances < call.df[i].Distances

(***************************************************************************)
(* Properties of the reranker and of the workflow                          *)
(***************************************************************************)
\* the record is of an integrated_workflow run that returned
Answered(c) == c.op = "integrated_workflow" /\ ~c.raised

\* a ranked row without its score, as it was in the retrieved frame
Unscored(row) ==
    [Documents |-> row.Documents, Metadata |-> row.Metadata, Distances |-> row.Distances]

\* the place of a ranked row in the retrieved frame
Place(df, row) == CHOOSE k \in 1 .. Len(df) : df[k] = Unscored(row)

Descending(R) ==
    \A i, j \in 1 .. Len(R) : i < j => R[i].Reranked_Scores >= R[j].Reranked_Scores

\* C7 as stated: the ranked frame is in descending order of score, and rows of
\* equal score stand in the order they had in the retrieved frame.
C7_AsStated ==
    Answered(call)
        => /\ Descending(call.reranked_df)
           /\ \A i, j \in 1 .. Len(call.reranked_df) :
                (/\ i < j
                 /\ call.reranked_df[i].Reranked_Scores = call.reranked_df[j].Reranked_Scores)
                    => Place(call.df, call.reranked_df[i]) < Place(call.df, call.reranked_df[j])

\* C7 amended: the ranked frame is in descending order of score (rows of equal
\* score come in no promised order).
C7_DescendingByScore ==
    Answered(call) => Descending(call.reranked_df)

\* the reranking moved a row with a higher score in front of the retrieved
\* frame's first row
C7_Witness ==
    /\ Answered(call)
    /\ Len(call.reranked_df) >= 3
    /\ Unscored(call.reranked_df[1]) # call.df[1]
    /\ call.reranked_df[1].Reranked_Scores > call.reranked_df[Len(call.reranked_df)].Reranked_Scores

\* C8: the ranked frame holds the rows of the retrieved frame, each once, with
\* its own text, metadata and distance, and with the score of its own text.
C8_Permutation ==
    Answered(call)
        => /\ Len(call.reranked_df) = Len(call.df)
           /\ \E p \in Permutations(1 .. Len(call.df)) :
                \A i \in 1 .. Len(call.df) : Unscored(call.reranked_df[i]) = call.df[p[i]]
           /\ \A i \in 1 .. Len(call.reranked_df) :
                call.reranked_df[i].Reranked_Scores
                    = call.score[call.reranked_df[i].Documents]

\* four rows, two of them with the same text, were reordered
C8_Witness ==
    /\ Answered(call)
    /\ Len(call.reranked_df) = 4
    /\ \E i, j \in 1 .. 4 :
         i # j /\ call.reranked_df[i].Documents = call.reranked_df[j].Documents
    /\ \E i \in 1 .. 4 : Unscored(call.reranked_df[i]) # call.df[i]

\* C9: when the scorer raises, the workflow ends in the exception after one
\* call of rerank_results: no ranked frame, nothing handed to the generator,
\* no response.
C9_ScoringFailureIsTotal ==
    (call.op = "integrated_workflow" /\ call.scorer_raised)
        => /\ call.raised
           /\ call.steps = <<"retrieve_documents", "rerank_results">>
           /\ call.reranked_df = NoFrame
           /\ call.top_docs = NoFrame
           /\ call.response = NoResponse

\* the scorer raised on a frame of several rows
C9_Witness ==
    /\ call.op = "integrated_workflow"
    /\ call.scorer_raised
    /\ Len(call.df) > 1

PipelineSteps == <<"retrieve_documents", "rerank_results", "generate_response">>

\* the metadata the workflow returns with the response
Citations(c) == Column(c.reranked_df, "Metadata")

\* the workflow ran its steps in order, with the default parameters, the
\* generator got the first min(TopK, n) ranked rows, and a call that raised
\* returned neither frame nor response
PipelineShape(c) ==
    /\ c.n_results = DefaultNResults /\ c.cache_threshold = DefaultCacheThreshold
    /\ c.steps = SubSeq(PipelineSteps, 1, Len(c.steps))
    /\ Len(c.steps) >= 1
    /\ c.raised => (c.reranked_df = NoFrame /\ c.response = NoResponse)
    /\ ~c.raised
        => /\ c.steps = PipelineSteps
           /\ c.response = Response
           /\ Len(c.top_docs) = (IF Len(c.reranked_df) < TopK THEN Len(c.reranked_df) ELSE TopK)
           /\ \A i \in 1 .. Len(c.top_docs) : c.top_docs[i] = c.reranked_df[i]

\* C10 as stated: the shape above, and the citations of a returned answer are
\* the metadata of exactly the rows the generator got, in the same order.
C10_AsStated ==
    call.op = "integrated_workflow"
        => /\ PipelineShape(call)
           /\ ~call.raised => Citations(call) = Column(call.top_docs, "Metadata")

\* C10 amended: the shape above, and a returned answer carries the whole
\* ranked frame: its metadata column starts with the metadata of the rows
\* the generator got, in the same order, and goes on with the metadata of the
\* ranked rows after them.
C10_PipelineComposition ==
    call.op = "integrated_workflow"
        => /\ PipelineShape(call)
           /\ ~call.raised
                => /\ Len(Citations(call)) = Len(call.df)
                   /\ SubSeq(Citations(call), 1, Len(call.top_docs))
                        = Column(call.top_docs, "Metadata")

\* an answer over four ranked rows: the generator got three of them
C10_Witness ==
    /\ Answered(call)
    /\ Len(call.reranked_df) = 4
    /\ Len(call.top_docs) = TopK
    /\ Unscored(call.reranked_df[1]) # call.df[1]

\* the record is of an integrated_workflow run whose retrieval missed and
\* returned, and whose reranking or generation then raised
FailedAfterMiss(c) ==
    /\ c.op = "integrated_workflow"
    /\ ~c.retrieval_raised /\ ~c.cache_hit
    /\ c.raised

\* C14: a workflow call that missed the cache and then raised in reranking or
\* in generation had written its cache entry before those steps started, and
\* the entry stays: the cache is not as it was before the call, it holds the
\* call's query string with the frame the call retrieved, and the next
\* retrieval of the same query string (the one of the next workflow call, or
\* any with the default threshold) hits and returns that frame.
C14_FailedAnswerLeavesEntry ==
    [][/\ FailedAfterMiss(call')
            => /\ call'.trace = <<"cache_collection.query", "collection.query",
                                  "cache_collection.add">>
               /\ call'.steps \in {<<"retrieve_documents", "rerank_results">>,
                                   PipelineSteps}
               /\ call'.response = NoResponse /\ call'.reranked_df = NoFrame
               /\ cache_collection' # cache_collection
               /\ call'.query \in DOMAIN cache_collection'
               /\ Payload(cache_collection'[call'.query]) = call'.df
               /\ \A n \in NResultsValues :
                    LET r == retrieve_documents(cache_collection', collection',
                                                call'.query, n, DefaultCacheThreshold,
                                                "none")
                    IN  ~r.raised /\ r.cache_hit /\ r.df = call'.df
       /\ (FailedAfterMiss(call) /\ Retrieved(call') /\ call'.query = call.query)
            => /\ call'.cache_hit
               /\ call'.df = call.df
               /\ cache_collection' = cache_collection]_vars

\* a workflow call missed, stored a frame of several rows, ranked it, and
\* raised in generation; its entry is in the cache
C14_Witness ==
    /\ FailedAfterMiss(call)
    /\ call.steps = PipelineSteps
    /\ Len(call.df) > 1
    /\ call.top_docs # NoFrame
    /\ call.query \in DOMAIN cache_collection

(***************************************************************************)
(* Properties of callers that run retrieve_documents at the same time      *)
(***************************************************************************)
\* both callers have returned from calls with the same arguments that ran at
\* the same time and both missed, and the VectorStore answered both from the
\* same chunks
ConcurrentIdenticalMisses ==
    /\ \A p \in Procs : threads[p].pc = "done" /\ ~threads[p].cache_hit
    /\ \E p \in Procs : threads[p].overlap
    /\ \A p, o \in Procs :
        /\ threads[p].query = threads[o].query
        /\ threads[p].n_results = threads[o].n_results
        /\ threads[p].cache_threshold = threads[o].cache_threshold
        /\ threads[p].corpus = threads[o].corpus

\* the two calls returned the same frame and the cache holds it under their
\* query string
SameResultStored ==
    \A p, o \in Procs :
        /\ threads[p].df = threads[o].df
        /\ threads[p].query \in DOMAIN cache_collection
        /\ Payload(cache_collection[threads[p].query]) = threads[p].df

\* C12 as stated: when two calls for the same query string ran at the same
\* time and both missed (no entry was within their threshold), then however
\* their lookups, VectorStore queries and stores interleaved, both returned
\* the same frame and the cache holds one entry for the query string, whose
\* payload is that frame.
C12_AsStated ==
    ConcurrentIdenticalMisses => SameResultStored

\* the same for calls with a threshold >= 0, where a miss means that the
\* query string had no entry when the calls looked the cache up
C12_ColdCache ==
    (ConcurrentIdenticalMisses /\ \A p \in Procs : threads[p].cache_threshold >= 0)
        => SameResultStored

====
